---- MODULE Spec2Model ----
(***************************************************************************)
(* Model of src/user/user_main.c: an ESP8266 soft access point with a TCP  *)
(* server.  A periodic timer callback (on_timer) derives the connection    *)
(* state from the number of WiFi stations and the number of open TCP       *)
(* connections and drives the status LED (GPIO2); the TCP receive callback *)
(* maps a digit '0'..'7' onto the three command LEDs (GPIO12..14).         *)
(*                                                                         *)
(* All callbacks run to completion on one thread of control, so each       *)
(* callback is one action.                                                 *)
(***************************************************************************)
EXTENDS Integers, Sequences, FiniteSets, TLC

(***************************************************************************)
(* Program constants                                                       *)
(***************************************************************************)
WIFI_ACCESS_POINT_MAX_CONNECTIONS == 3

STATE_DISCONNECTED == 0
STATE_CLIENT_WIFI_CONNECTED == 1
STATE_CLIENT_SOCKET_CONNECTED == 2

TIMER_PERIOD_STATE_UPDATE == 50
TIMER_PERIOD_WIFI_STATUS_LED == 5
TIMER_PERIOD_RESET == 1000000

CHAR_DIGITS_START == 48
CHAR_DIGITS_END == 55

GPIO_PIN_LED_INT == 2
GPIO_PIN_LED_1 == 12
GPIO_PIN_LED_2 == 13
GPIO_PIN_LED_3 == 14

(***************************************************************************)
(* Bounds of the model                                                     *)
(***************************************************************************)
\* WiFi stations that associate with the access point in the model.
MaxSessions == 1
\* TCP connections open at a time in the model.
MaxOpen == 1
\* on_timer calls explored by Spec.
MaxTicks == 51
\* length of the receive buffers drawn from RxAlphabet.
MaxLen == 2
\* on_timer calls explored by SpecCadence.
MaxCadenceCalls == 1010
\* SpecWrap starts WrapLead calls before tick_index wraps ...
WrapLead == 100
\* ... and explores MaxWrapCalls calls.
MaxWrapCalls == 220
\* on_timer calls explored by SpecE2E.
MaxE2ECalls == 160
\* on_timer calls explored by SpecLag.
MaxLagCalls == 52
\* on_timer calls explored by SpecBoot.
MaxBootCalls == 6
\* accepts not matched by a disconnect that SpecCount lets accumulate ...
MaxBalance == 129
\* ... and on_timer calls it explores.
MaxCountCalls == 1

(***************************************************************************)
(* State                                                                   *)
(***************************************************************************)
VARIABLES
    tick_index,               \* static uint32 tick_index
    client_connection_state,  \* static uint8 client_connection_state
    prev_wifi_sessions_num,   \* static uint8 prev_wifi_sessions_num
    open_tcp_connections,     \* static sint8 open_tcp_connections
    gpio_out,                 \* the GPIO_OUT register (GPIO0..15)
    station_num,              \* platform: what wifi_softap_get_station_num() returns
    live_connections,         \* platform: accepted connections not yet disconnected
    pusrdata,                 \* the buffer handed to the latest on_tcp_server_receive
    dispatched,               \* the digits that call passed to process_digit_key
    calls,                    \* number of on_timer invocations
    state_updates,            \* number of times the state-update branch ran
    led_updates,              \* number of times the status-LED branch ran
    open_at_update,           \* open_tcp_connections on entry to the latest state-update branch
    zero_drop,                \* what became of the latest drop of station_num to 0:
                              \* "pending" until a state-update branch runs, then
                              \* "seen" (it read 0) or "missed" (it read > 0);
                              \* "none" when no drop preceded the latest branch
    ap_config,                \* static struct softap_config* ap_config: "NULL" or "allocated"
    startup,                  \* platform: what on_user_init_completed has set up so far
    sessions_log,             \* the session count the latest on_timer call logged, -1 if it logged none
    balance,                  \* accepts minus disconnects since the latest zero-session reset
    steady_calls              \* on_timer calls since InputClass last changed, up to
                              \* TIMER_PERIOD_STATE_UPDATE; -1 where it is not measured

vars == <<tick_index, client_connection_state, prev_wifi_sessions_num,
          open_tcp_connections, gpio_out, station_num, live_connections,
          pusrdata, dispatched, calls, state_updates, led_updates, open_at_update, zero_drop,
          ap_config, startup, sessions_log, balance, steady_calls>>

(***************************************************************************)
(* Machine arithmetic                                                      *)
(***************************************************************************)
RECURSIVE BitAnd(_, _)
BitAnd(a, b) ==
    IF a = 0 \/ b = 0 THEN 0
    ELSE (a % 2) * (b % 2) + 2 * BitAnd(a \div 2, b \div 2)

RECURSIVE BitOr(_, _)
BitOr(a, b) ==
    IF a = 0 THEN b
    ELSE IF b = 0 THEN a
    ELSE (IF a % 2 = 1 \/ b % 2 = 1 THEN 1 ELSE 0) + 2 * BitOr(a \div 2, b \div 2)

RECURSIVE BitXor(_, _)
BitXor(a, b) ==
    IF a = 0 THEN b
    ELSE IF b = 0 THEN a
    ELSE ((a + b) % 2) + 2 * BitXor(a \div 2, b \div 2)

Shl(a, n) == a * (2 ^ n)

\* the sixteen GPIO lines of the output register
GpioMask == (2 ^ 16) - 1

\* conversion of an int to sint8 / uint8 (two's complement)
ToSint8(x) == LET m == x % 256 IN IF m >= 128 THEN m - 256 ELSE m
ToUint8(x) == x % 256

\* gpio_output_set(set_mask, clear_mask, 0, 0): the set mask is written to the
\* write-1-to-set register, then the clear mask to the write-1-to-clear register.
gpio_output_set(out, set_mask, clear_mask) ==
    BitAnd(BitOr(out, BitAnd(set_mask, GpioMask)),
           GpioMask - BitAnd(clear_mask, GpioMask))

StatusLedBit == Shl(1, GPIO_PIN_LED_INT)
CommandLedMask == Shl(7, GPIO_PIN_LED_1)
\* the three command-LED bits of a register value, as a number 0..7
CommandLeds(out) == BitAnd(out, CommandLedMask) \div (2 ^ GPIO_PIN_LED_1)

(***************************************************************************)
(* process_digit_key                                                       *)
(***************************************************************************)
\* uint8 num = (digit - CHAR_DIGITS_START) & 0x07
DigitNum(digit) == ToUint8(BitAnd((digit - CHAR_DIGITS_START) % (2 ^ 16), 7))

\* a variant that only raises the lines of the digit's bits
process_digit_key_keep(digit, out) ==
    gpio_output_set(out, Shl(DigitNum(digit), GPIO_PIN_LED_1), 0)

\* a variant that clears the status LED line along with the command lines
process_digit_key_clears_status(digit, out) ==
    LET num == DigitNum(digit)
    IN  gpio_output_set(out, Shl(7, GPIO_PIN_LED_1),
                        BitOr(Shl(BitXor(num, 7), GPIO_PIN_LED_1), StatusLedBit))

process_digit_key(digit, out) ==
    LET num == DigitNum(digit)
    IN  gpio_output_set(out, Shl(7, GPIO_PIN_LED_1),
                        Shl(BitXor(num, 7), GPIO_PIN_LED_1))

(***************************************************************************)
(* on_tcp_server_receive                                                   *)
(***************************************************************************)
IsDigitKey(c) == c >= CHAR_DIGITS_START /\ c <= CHAR_DIGITS_END

\* a variant of the loop in which the first byte from the end that is no digit
\* ends the scan
RECURSIVE ScanLoopStopAtNonDigit(_, _, _, _, _)
ScanLoopStopAtNonDigit(buf, idx, last_char, out, disp) ==
    IF idx > 0 /\ last_char = 0
    THEN LET c == buf[idx]
         IN  IF IsDigitKey(c)
             THEN ScanLoopStopAtNonDigit(buf, idx - 1, c, process_digit_key(c, out),
                                         Append(disp, c))
             ELSE [out |-> out, dispatched |-> disp]
    ELSE [out |-> out, dispatched |-> disp]

\* a variant of the loop that does not stop at the first digit found
RECURSIVE ScanLoopAllDigits(_, _, _, _, _)
ScanLoopAllDigits(buf, idx, last_char, out, disp) ==
    IF idx > 0
    THEN LET c == buf[idx]
         IN  IF IsDigitKey(c)
             THEN ScanLoopAllDigits(buf, idx - 1, c, process_digit_key(c, out),
                                    Append(disp, c))
             ELSE ScanLoopAllDigits(buf, idx - 1, 0, out, disp)
    ELSE [out |-> out, dispatched |-> disp]

\* The for loop of on_tcp_server_receive: idx runs from length downwards while
\* last_char is 0.  buf[idx] is pusrdata[idx - 1] of the C code.  The result is
\* the register value and the digits handed to process_digit_key, in order.
RECURSIVE ScanLoop(_, _, _, _, _)
ScanLoop(buf, idx, last_char, out, disp) ==
    IF idx > 0 /\ last_char = 0
    THEN LET c == buf[idx]
         IN  IF IsDigitKey(c)
             THEN ScanLoop(buf, idx - 1, c, process_digit_key(c, out), Append(disp, c))
             ELSE ScanLoop(buf, idx - 1, 0, out, disp)
    ELSE [out |-> out, dispatched |-> disp]

ReceiveResultStopAtNonDigit(buf, out) ==
    IF Len(buf) # 0
    THEN ScanLoopStopAtNonDigit(buf, Len(buf), 0, out, <<>>)
    ELSE [out |-> out, dispatched |-> <<>>]

ReceiveResultAllDigits(buf, out) ==
    IF Len(buf) # 0
    THEN ScanLoopAllDigits(buf, Len(buf), 0, out, <<>>)
    ELSE [out |-> out, dispatched |-> <<>>]

\* a variant that scans forward and dispatches the first digit of the buffer
ReceiveResultFirstDigit(buf, out) ==
    IF \E i \in DOMAIN buf : IsDigitKey(buf[i])
    THEN LET i == CHOOSE k \in DOMAIN buf :
                      IsDigitKey(buf[k]) /\ \A j \in DOMAIN buf : j < k => ~IsDigitKey(buf[j])
         IN  [out |-> process_digit_key(buf[i], out), dispatched |-> <<buf[i]>>]
    ELSE [out |-> out, dispatched |-> <<>>]

\* a variant that puts the command LEDs out when the scan finds no digit
ReceiveResultClearOnNoDigit(buf, out) ==
    LET r == IF Len(buf) # 0
             THEN ScanLoop(buf, Len(buf), 0, out, <<>>)
             ELSE [out |-> out, dispatched |-> <<>>]
    IN  IF r.dispatched = <<>>
        THEN [out |-> gpio_output_set(out, 0, CommandLedMask), dispatched |-> <<>>]
        ELSE r

\* if (length) { for (idx = length; idx > 0 && !last_char; --idx) ... }
ReceiveResult(buf, out) ==
    IF Len(buf) # 0
    THEN ScanLoop(buf, Len(buf), 0, out, <<>>)
    ELSE [out |-> out, dispatched |-> <<>>]

on_tcp_server_receive(buf) ==
    LET r == ReceiveResult(buf, gpio_out)
    IN  /\ gpio_out' = r.out
        /\ pusrdata' = buf
        /\ dispatched' = r.dispatched
        /\ UNCHANGED <<tick_index, client_connection_state, prev_wifi_sessions_num,
                       open_tcp_connections, station_num, live_connections, calls,
                       state_updates, led_updates, open_at_update, zero_drop,
                       ap_config, startup, sessions_log, balance, steady_calls>>

(***************************************************************************)
(* What the state-update branch of on_timer reads                          *)
(***************************************************************************)
\* the two tests of the branch: if (wifi_sessions_num), if (open_tcp_connections),
\* with the sign of a nonzero counter told apart
InputClass(s, o) ==
    IF s = 0 THEN "no_session"
    ELSE IF o > 0 THEN "open"
    ELSE IF o = 0 THEN "idle"
    ELSE "negative"

\* steady_calls after a step: back to 0 when the step changed InputClass, one
\* more after an on_timer call that did not
SteadyCalls(timer) ==
    IF steady_calls < 0 THEN steady_calls
    ELSE IF InputClass(station_num', open_tcp_connections')
            # InputClass(station_num, open_tcp_connections) THEN 0
    ELSE IF timer /\ steady_calls < TIMER_PERIOD_STATE_UPDATE THEN steady_calls + 1
    ELSE steady_calls

(***************************************************************************)
(* on_tcp_server_accepted, on_tcp_server_disconnect, on_tcp_server_reconnect *)
(***************************************************************************)
\* a variant that also shows the new connection in the state at once
on_tcp_server_accepted_sets_state ==
    /\ startup.listening
    /\ station_num > 0
    /\ live_connections < MaxOpen
    /\ live_connections' = live_connections + 1
    /\ open_tcp_connections' = ToSint8(open_tcp_connections + 1)
    /\ client_connection_state' = STATE_CLIENT_SOCKET_CONNECTED
    /\ balance' = balance + 1
    /\ UNCHANGED <<tick_index, prev_wifi_sessions_num,
                   gpio_out, station_num, pusrdata, dispatched, calls,
                   state_updates, led_updates, open_at_update, zero_drop,
                   ap_config, startup, sessions_log>>
    /\ steady_calls' = SteadyCalls(FALSE)

\* The platform calls on_tcp_server_accepted for a new connection, which only
\* an associated station can open, and
\* on_tcp_server_disconnect, registered by it (espconn_regist_disconcb), for a
\* connection that was accepted.
on_tcp_server_accepted ==
    /\ startup.listening
    /\ station_num > 0
    /\ live_connections < MaxOpen
    /\ live_connections' = live_connections + 1
    /\ open_tcp_connections' = ToSint8(open_tcp_connections + 1)
    /\ balance' = balance + 1
    /\ UNCHANGED <<tick_index, client_connection_state, prev_wifi_sessions_num,
                   gpio_out, station_num, pusrdata, dispatched, calls,
                   state_updates, led_updates, open_at_update, zero_drop,
                   ap_config, startup, sessions_log>>
    /\ steady_calls' = SteadyCalls(FALSE)

\* a variant that leaves the counter alone
on_tcp_server_disconnect_no_decrement ==
    /\ live_connections > 0
    /\ live_connections' = live_connections - 1
    /\ balance' = balance - 1
    /\ UNCHANGED <<tick_index, client_connection_state, prev_wifi_sessions_num,
                   open_tcp_connections, gpio_out, station_num, pusrdata, dispatched,
                   calls, state_updates, led_updates, open_at_update, zero_drop,
                   ap_config, startup, sessions_log>>
    /\ steady_calls' = SteadyCalls(FALSE)

on_tcp_server_disconnect ==
    /\ live_connections > 0
    /\ live_connections' = live_connections - 1
    /\ open_tcp_connections' = ToSint8(open_tcp_connections - 1)
    /\ balance' = balance - 1
    /\ UNCHANGED <<tick_index, client_connection_state, prev_wifi_sessions_num,
                   gpio_out, station_num, pusrdata, dispatched, calls,
                   state_updates, led_updates, open_at_update, zero_drop,
                   ap_config, startup, sessions_log>>
    /\ steady_calls' = SteadyCalls(FALSE)

\* espconn error codes handed to the reconnect callback: ESPCONN_TIMEOUT,
\* ESPCONN_ABRT, ESPCONN_RST, ESPCONN_CLSD, ESPCONN_CONN
ReconnectErrors == {-3, -8, -9, -10, -11}

\* a variant that counts the broken connection out
on_tcp_server_reconnect_decrement(err) ==
    /\ live_connections > 0
    /\ live_connections' = live_connections - 1
    /\ open_tcp_connections' = ToSint8(open_tcp_connections - 1)
    /\ UNCHANGED <<tick_index, client_connection_state, prev_wifi_sessions_num,
                   gpio_out, station_num, pusrdata, dispatched, calls,
                   state_updates, led_updates, open_at_update, zero_drop,
                   ap_config, startup, sessions_log, balance>>
    /\ steady_calls' = SteadyCalls(FALSE)

\* The platform calls on_tcp_server_reconnect, registered by
\* on_tcp_server_accepted (espconn_regist_reconcb), when an accepted connection
\* breaks with an error; that connection is gone and gets no disconnect
\* callback.  The handler logs err and writes nothing.
on_tcp_server_reconnect(err) ==
    /\ live_connections > 0
    /\ live_connections' = live_connections - 1
    /\ UNCHANGED <<tick_index, client_connection_state, prev_wifi_sessions_num,
                   open_tcp_connections, gpio_out, station_num, pusrdata, dispatched,
                   calls, state_updates, led_updates, open_at_update, zero_drop,
                   ap_config, startup, sessions_log, balance>>
    /\ steady_calls' = SteadyCalls(FALSE)

(***************************************************************************)
(* on_timer                                                                *)
(***************************************************************************)
\* a variant that logs on every state-update tick
SessionsLogEveryUpdate(upd, wifi_sessions_num, prev) ==
    IF upd THEN wifi_sessions_num ELSE -1

\* if (wifi_sessions_num != prev_wifi_sessions_num) OS_UART_LOG(... wifi_sessions_num),
\* inside the state-update branch
SessionsLog(upd, wifi_sessions_num, prev) ==
    IF upd /\ wifi_sessions_num # prev THEN wifi_sessions_num ELSE -1

StateUpdateDueLedPeriod(t) == t % TIMER_PERIOD_WIFI_STATUS_LED = 0

\* a variant that runs the state-update branch every 100th call only
StateUpdateDueEveryHundred(t) == t % (2 * TIMER_PERIOD_STATE_UPDATE) = 0

StateUpdateDue(t) == t % TIMER_PERIOD_STATE_UPDATE = 0
StatusLedDue(t) == t % TIMER_PERIOD_WIFI_STATUS_LED = 0

\* the state-update branch: the new client_connection_state
\* a variant that looks at the counter before the session count
NextConnectionStateNoWifi(s, o) ==
    IF o # 0 THEN STATE_CLIENT_SOCKET_CONNECTED
    ELSE IF s # 0 THEN STATE_CLIENT_WIFI_CONNECTED ELSE STATE_DISCONNECTED

NextConnectionState(s, o) ==
    IF s # 0
    THEN IF o # 0 THEN STATE_CLIENT_SOCKET_CONNECTED ELSE STATE_CLIENT_WIFI_CONNECTED
    ELSE STATE_DISCONNECTED

\* the state-update branch: the new open_tcp_connections
NextOpenConnectionsNoReset(s, o) == o

NextOpenConnections(s, o) == IF s # 0 THEN o ELSE 0

\* the status-LED branch: the new GPIO_OUT register
StatusLedOutNoToggle(state, out) ==
    IF state = STATE_CLIENT_SOCKET_CONNECTED
    THEN gpio_output_set(out, 0, StatusLedBit)
    ELSE IF state = STATE_CLIENT_WIFI_CONNECTED
    THEN gpio_output_set(out, 0, StatusLedBit)
    ELSE gpio_output_set(out, StatusLedBit, 0)

StatusLedOut(state, out) ==
    IF state = STATE_CLIENT_SOCKET_CONNECTED
    THEN gpio_output_set(out, 0, StatusLedBit)
    ELSE IF state = STATE_CLIENT_WIFI_CONNECTED
    THEN IF BitAnd(out, StatusLedBit) # 0
         THEN gpio_output_set(out, 0, StatusLedBit)
         ELSE gpio_output_set(out, StatusLedBit, 0)
    ELSE gpio_output_set(out, StatusLedBit, 0)

\* tick_index++; if (tick_index >= TIMER_PERIOD_RESET) tick_index = 0;
NextTickIndexLate(t) == IF t + 1 > TIMER_PERIOD_RESET THEN 0 ELSE t + 1

NextTickIndex(t) == IF t + 1 >= TIMER_PERIOD_RESET THEN 0 ELSE t + 1

\* a variant in which the status-LED branch works with the state on entry
LedBranchStateOnEntry(state_on_entry, state_updated) == state_on_entry

\* The status-LED branch (line 283) comes after the state-update branch
\* (lines 254-280) and reads client_connection_state as that branch left it.
LedBranchState(state_on_entry, state_updated) == state_updated

on_timer ==
    LET upd == StateUpdateDue(tick_index)
        led == StatusLedDue(tick_index)
        wifi_sessions_num == ToUint8(station_num)
        state == IF upd
                 THEN NextConnectionState(wifi_sessions_num, open_tcp_connections)
                 ELSE client_connection_state
    IN  /\ startup.timer_armed
        /\ client_connection_state' = state
        /\ sessions_log' = SessionsLog(upd, wifi_sessions_num, prev_wifi_sessions_num)
        /\ prev_wifi_sessions_num' =
               IF upd /\ wifi_sessions_num # prev_wifi_sessions_num
               THEN wifi_sessions_num ELSE prev_wifi_sessions_num
        /\ open_tcp_connections' =
               IF upd THEN NextOpenConnections(wifi_sessions_num, open_tcp_connections)
               ELSE open_tcp_connections
        /\ gpio_out' =
               IF led
               THEN StatusLedOut(LedBranchState(client_connection_state, state), gpio_out)
               ELSE gpio_out
        /\ tick_index' = NextTickIndex(tick_index)
        /\ calls' = calls + 1
        /\ state_updates' = IF upd THEN state_updates + 1 ELSE state_updates
        /\ led_updates' = IF led THEN led_updates + 1 ELSE led_updates
        /\ open_at_update' = IF upd THEN open_tcp_connections ELSE open_at_update
        /\ zero_drop' =
               IF ~upd THEN zero_drop
               ELSE IF zero_drop # "pending" THEN "none"
               ELSE IF wifi_sessions_num = 0 THEN "seen" ELSE "missed"
        /\ balance' = IF upd /\ wifi_sessions_num = 0 THEN 0 ELSE balance
        /\ UNCHANGED <<station_num, live_connections, pusrdata, dispatched,
                       ap_config, startup>>
        /\ steady_calls' = SteadyCalls(TRUE)

(***************************************************************************)
(* Platform: stations associate with and leave the access point            *)
(***************************************************************************)
StationJoin ==
    /\ station_num < MaxSessions
    /\ station_num < WIFI_ACCESS_POINT_MAX_CONNECTIONS
    /\ station_num' = station_num + 1
    /\ UNCHANGED <<tick_index, client_connection_state, prev_wifi_sessions_num,
                   open_tcp_connections, gpio_out, live_connections, pusrdata,
                   dispatched, calls, state_updates, led_updates, open_at_update,
                   zero_drop, ap_config, startup, sessions_log, balance>>
    /\ steady_calls' = SteadyCalls(FALSE)

StationLeave ==
    /\ station_num > 0
    /\ station_num' = station_num - 1
    /\ zero_drop' = IF station_num = 1 THEN "pending" ELSE zero_drop
    /\ UNCHANGED <<tick_index, client_connection_state, prev_wifi_sessions_num,
                   open_tcp_connections, gpio_out, live_connections, pusrdata,
                   dispatched, calls, state_updates, led_updates, open_at_update,
                   ap_config, startup, sessions_log, balance>>
    /\ steady_calls' = SteadyCalls(FALSE)

(***************************************************************************)
(* on_user_init_completed                                                  *)
(***************************************************************************)
\* a variant that gives up when the access point configuration is refused
StartupResultStopOnFailure(alloc_ok, config_ok, dhcp_ok, accept_ok) ==
    IF ~alloc_ok
    THEN [phase |-> "crashed", ap_set |-> FALSE, released |-> FALSE,
          dhcp_started |-> FALSE, listening |-> FALSE, timer_armed |-> FALSE]
    ELSE [phase |-> "running", ap_set |-> config_ok, released |-> ~config_ok,
          dhcp_started |-> config_ok /\ dhcp_ok, listening |-> config_ok /\ accept_ok,
          timer_armed |-> config_ok]

\* on_user_init_completed: access_point_setup, tcp_server_setup, os_timer_arm.
\* alloc_ok, config_ok, dhcp_ok, accept_ok: whether os_zalloc returned a block,
\* wifi_softap_set_config and wifi_softap_dhcps_start returned true,
\* espconn_accept returned ESPCONN_OK.  access_point_setup writes through the
\* pointer os_zalloc returned without testing it; a store to address 0 raises
\* an exception on this processor.
StartupResult(alloc_ok, config_ok, dhcp_ok, accept_ok) ==
    IF ~alloc_ok
    THEN [phase |-> "crashed", ap_set |-> FALSE, released |-> FALSE,
          dhcp_started |-> FALSE, listening |-> FALSE, timer_armed |-> FALSE]
    ELSE [phase |-> "running", ap_set |-> config_ok, released |-> ~config_ok,
          dhcp_started |-> config_ok /\ dhcp_ok, listening |-> accept_ok,
          timer_armed |-> TRUE]

\* ap_config after access_point_setup: access_point_release sets it to NULL
ApConfigAfterSetup(alloc_ok, config_ok) ==
    IF alloc_ok /\ config_ok THEN "allocated" ELSE "NULL"

on_user_init_completed ==
    /\ startup.phase = "pending"
    /\ \E alloc_ok \in BOOLEAN, config_ok \in BOOLEAN, dhcp_ok \in BOOLEAN, accept_ok \in BOOLEAN :
           /\ startup' = StartupResult(alloc_ok, config_ok, dhcp_ok, accept_ok)
           /\ ap_config' = ApConfigAfterSetup(alloc_ok, config_ok)
    /\ UNCHANGED <<tick_index, client_connection_state, prev_wifi_sessions_num,
                   open_tcp_connections, gpio_out, station_num, live_connections,
                   pusrdata, dispatched, calls, state_updates, led_updates,
                   open_at_update, zero_drop, sessions_log, balance, steady_calls>>

(***************************************************************************)
(* Initial state: the statics as initialised, the timer not yet fired.     *)
(* user_init enables the four LED pins as outputs without writing their    *)
(* value, so the LED bits of GPIO_OUT start as the hardware left them: the  *)
(* status line low or high, the command lines all low or all high.         *)
(***************************************************************************)
InitialGpioOut ==
    { s2 + s12 : s2 \in {0, Shl(1, GPIO_PIN_LED_INT)}, s12 \in {0, Shl(7, GPIO_PIN_LED_1)} }

InitStatics ==
    /\ tick_index = 0
    /\ client_connection_state = STATE_DISCONNECTED
    /\ prev_wifi_sessions_num = 0
    /\ open_tcp_connections = 0
    /\ gpio_out \in InitialGpioOut
    /\ station_num = 0
    /\ live_connections = 0
    /\ pusrdata = <<>>
    /\ dispatched = <<>>
    /\ calls = 0
    /\ state_updates = 0
    /\ led_updates = 0
    /\ open_at_update = 0
    /\ zero_drop = "none"
    /\ sessions_log = -1
    /\ balance = 0

\* on_user_init_completed has run, every platform call of it succeeding
Init ==
    /\ InitStatics
    /\ ap_config = "allocated"
    /\ startup = StartupResult(TRUE, TRUE, TRUE, TRUE)
    /\ steady_calls = -1

(***************************************************************************)
(* Receive buffers                                                         *)
(***************************************************************************)
\* NUL, '/', '0', '7', '8', 'x': the bytes around the digit range, and NUL,
\* which the loop's !last_char test reads as "no digit yet"
RxAlphabet == {0, 47, 48, 55, 56, 120}

RECURSIVE SeqsUpTo(_, _)
SeqsUpTo(S, n) ==
    IF n = 0 THEN {<<>>}
    ELSE LET shorter == SeqsUpTo(S, n - 1)
         IN  shorter \cup {Append(q, c) : q \in {p \in shorter : Len(p) = n - 1}, c \in S}

Str57x == <<53, 55, 120>>
Str123 == <<49, 50, 51>>
Strabc5 == <<97, 98, 99, 53>>
Str5x7 == <<53, 120, 55>>
Strx8 == <<120, 56, 0>>

Strhello7 == <<104, 101, 108, 108, 111, 55>>

\* every digit key on its own
DigitKeys == { <<c>> : c \in CHAR_DIGITS_START..CHAR_DIGITS_END }

RxBuffers ==
    SeqsUpTo(RxAlphabet, MaxLen) \cup DigitKeys
        \cup {Str57x, Str123, Strabc5, Str5x7, Strhello7}

(***************************************************************************)
(* Spec: every callback, interleaved                                       *)
(***************************************************************************)
TimerStep == calls < MaxTicks /\ on_timer

Accept == open_tcp_connections < MaxOpen /\ on_tcp_server_accepted

Disconnect == on_tcp_server_disconnect

Reconnect == \E err \in ReconnectErrors : on_tcp_server_reconnect(err)

\* data arrives on an accepted connection
Receive ==
    /\ live_connections > 0
    /\ \E buf \in {Str57x, Strhello7, Strx8} : on_tcp_server_receive(buf)

Next ==
    TimerStep \/ StationJoin \/ StationLeave \/ Accept \/ Disconnect \/ Reconnect
        \/ Receive

Spec == Init /\ [][Next]_vars

(***************************************************************************)
(* SpecRx: on_tcp_server_receive applied to every buffer of RxBuffers,     *)
(* again and again                                                         *)
(***************************************************************************)
RxReceive == \E buf \in RxBuffers : on_tcp_server_receive(buf)

SpecRx == Init /\ [][RxReceive]_vars

(***************************************************************************)
(* SpecCadence: the timer alone, from the initial state                    *)
(***************************************************************************)
CadenceStep == calls < MaxCadenceCalls /\ on_timer

SpecCadence == Init /\ [][CadenceStep]_vars

(***************************************************************************)
(* SpecWrap: the timer alone, across the reset of tick_index.  It starts   *)
(* in the state that TIMER_PERIOD_RESET - WrapLead calls of on_timer reach *)
(* from Init when no station ever associates: Disconnected, the status LED *)
(* put out by the status-LED branch.  calls, state_updates and led_updates *)
(* count from that state on.                                               *)
(***************************************************************************)
WrapStart == TIMER_PERIOD_RESET - WrapLead

InitWrap ==
    /\ tick_index = WrapStart
    /\ client_connection_state = STATE_DISCONNECTED
    /\ prev_wifi_sessions_num = 0
    /\ open_tcp_connections = 0
    /\ gpio_out \in { StatusLedBit + c : c \in {0, CommandLedMask} }
    /\ station_num = 0
    /\ live_connections = 0
    /\ pusrdata = <<>>
    /\ dispatched = <<>>
    /\ calls = 0
    /\ state_updates = 0
    /\ led_updates = 0
    /\ open_at_update = 0
    /\ zero_drop = "none"
    /\ ap_config = "allocated"
    /\ startup = StartupResult(TRUE, TRUE, TRUE, TRUE)
    /\ sessions_log = -1
    /\ balance = 0
    /\ steady_calls = -1

WrapStep == calls < MaxWrapCalls /\ on_timer

SpecWrap == InitWrap /\ [][WrapStep]_vars

(***************************************************************************)
(* SpecE2E: one client's session.  A station associates, opens a TCP       *)
(* connection once the state shows WifiConnected, sends "hello7" once the  *)
(* state shows SocketConnected, and closes the connection; the timer runs  *)
(* throughout.                                                             *)
(***************************************************************************)
E2EJoin == station_num = 0 /\ StationJoin

E2EAccept ==
    /\ client_connection_state = STATE_CLIENT_WIFI_CONNECTED
    /\ live_connections = 0
    /\ pusrdata = <<>>
    /\ on_tcp_server_accepted

E2EReceive ==
    /\ client_connection_state = STATE_CLIENT_SOCKET_CONNECTED
    /\ live_connections = 1
    /\ pusrdata = <<>>
    /\ on_tcp_server_receive(Strhello7)

E2EDisconnect ==
    /\ client_connection_state = STATE_CLIENT_SOCKET_CONNECTED
    /\ pusrdata = Strhello7
    /\ on_tcp_server_disconnect

E2ETimer == calls < MaxE2ECalls /\ on_timer

NextE2E == E2ETimer \/ E2EJoin \/ E2EAccept \/ E2EReceive \/ E2EDisconnect

SpecE2E == Init /\ [][NextE2E]_vars

(***************************************************************************)
(* SpecLag: every callback but receive, interleaved, with steady_calls     *)
(* measured from the start                                                 *)
(***************************************************************************)
InitLag ==
    /\ InitStatics
    /\ ap_config = "allocated"
    /\ startup = StartupResult(TRUE, TRUE, TRUE, TRUE)
    /\ steady_calls = 0

LagTimer == calls < MaxLagCalls /\ on_timer

NextLag ==
    LagTimer \/ StationJoin \/ StationLeave \/ Accept \/ Disconnect \/ Reconnect

SpecLag == InitLag /\ [][NextLag]_vars

(***************************************************************************)
(* SpecCount: connections are accepted and end, by a disconnect or by an   *)
(* error, for as long as the counter takes to run through its range        *)
(***************************************************************************)
CountAccept == balance < MaxBalance /\ on_tcp_server_accepted

CountTimer == calls < MaxCountCalls /\ on_timer

NextCount ==
    CountTimer \/ StationJoin \/ StationLeave \/ CountAccept \/ Disconnect \/ Reconnect

SpecCount == Init /\ [][NextCount]_vars

(***************************************************************************)
(* SpecBoot: from the statics as initialised, on_user_init_completed runs  *)
(* with every outcome of its platform calls, then the callbacks it has     *)
(* registered                                                              *)
(***************************************************************************)
InitBoot ==
    /\ InitStatics
    /\ ap_config = "NULL"
    /\ startup = [phase |-> "pending", ap_set |-> FALSE, released |-> FALSE,
                  dhcp_started |-> FALSE, listening |-> FALSE, timer_armed |-> FALSE]
    /\ steady_calls = -1

BootTimer == calls < MaxBootCalls /\ on_timer

BootJoin == startup.phase = "running" /\ StationJoin

NextBoot ==
    on_user_init_completed \/ BootTimer \/ BootJoin \/ StationLeave \/ Accept
        \/ Disconnect

SpecBoot == InitBoot /\ [][NextBoot]_vars

(***************************************************************************)
(* Vocabulary of the properties                                            *)
(***************************************************************************)
\* this step is an on_timer call
TimerCall == calls' = calls + 1
\* ... whose state-update branch runs
StateUpdateTick == TimerCall /\ tick_index % TIMER_PERIOD_STATE_UPDATE = 0
\* ... whose status-LED branch runs
StatusLedTick == TimerCall /\ tick_index % TIMER_PERIOD_WIFI_STATUS_LED = 0

\* the status LED is wired active low: lit while GPIO2 is cleared
StatusLedOn(out) == (out \div (2 ^ GPIO_PIN_LED_INT)) % 2 = 0

\* a step that is no on_timer call, no connection event, no station event and
\* no startup: if it changes anything, it is an on_tcp_server_receive call
ReceiveCall ==
    /\ calls' = calls
    /\ live_connections' = live_connections
    /\ station_num' = station_num
    /\ startup' = startup

(***************************************************************************)
(* C1.  On every state-update tick, with s the session count the platform  *)
(* returns and o the value of open_tcp_connections on entry: s = 0 gives   *)
(* Disconnected and resets open_tcp_connections to 0; s > 0 and o > 0      *)
(* gives SocketConnected; s > 0 and o = 0 gives WifiConnected.             *)
(***************************************************************************)
C1_StateUpdateRule ==
    [][StateUpdateTick =>
          /\ station_num = 0 =>
                /\ client_connection_state' = STATE_DISCONNECTED
                /\ open_tcp_connections' = 0
          /\ (station_num > 0 /\ open_tcp_connections > 0) =>
                client_connection_state' = STATE_CLIENT_SOCKET_CONNECTED
          /\ (station_num > 0 /\ open_tcp_connections = 0) =>
                client_connection_state' = STATE_CLIENT_WIFI_CONNECTED]_vars

\* a state-update tick after the first one read a positive session count while
\* a connection was open, and set SocketConnected
C1_Witness ==
    /\ state_updates >= 2
    /\ prev_wifi_sessions_num > 0
    /\ open_at_update > 0
    /\ client_connection_state = STATE_CLIENT_SOCKET_CONNECTED

(***************************************************************************)
(* C2.  Whenever a state-update tick sets the state to SocketConnected,    *)
(* the session count read at that tick is > 0 and open_tcp_connections is  *)
(* > 0 at that tick.                                                       *)
(***************************************************************************)
C2_SocketConnectedOnlyWhenPositive ==
    [][(StateUpdateTick /\ client_connection_state' = STATE_CLIENT_SOCKET_CONNECTED)
          => (station_num > 0 /\ open_tcp_connections > 0)]_vars

(***************************************************************************)
(* C6.  On every status-LED tick the status LED is set from the state the  *)
(* tick works with: SocketConnected lights it, Disconnected puts it out,   *)
(* WifiConnected inverts the bit read from the register; on every other    *)
(* tick the register is not written.                                       *)
(***************************************************************************)
C6_StatusLedRule ==
    [][TimerCall =>
          IF tick_index % TIMER_PERIOD_WIFI_STATUS_LED = 0
          THEN /\ client_connection_state' = STATE_CLIENT_SOCKET_CONNECTED
                     => StatusLedOn(gpio_out')
               /\ client_connection_state' = STATE_DISCONNECTED
                     => ~StatusLedOn(gpio_out')
               /\ client_connection_state' = STATE_CLIENT_WIFI_CONNECTED
                     => (StatusLedOn(gpio_out') <=> ~StatusLedOn(gpio_out))
          ELSE gpio_out' = gpio_out]_vars

\* several status-LED ticks were spent in WifiConnected and the latest one lit
\* the LED
C6_Witness ==
    /\ client_connection_state = STATE_CLIENT_WIFI_CONNECTED
    /\ led_updates >= 4
    /\ tick_index % TIMER_PERIOD_WIFI_STATUS_LED = 1
    /\ StatusLedOn(gpio_out)

(***************************************************************************)
(* Vocabulary of the receive properties                                    *)
(***************************************************************************)
LastByte(buf) == buf[Len(buf)]
HasDigitKey(buf) == \E i \in DOMAIN buf : IsDigitKey(buf[i])
\* the digit key at the highest index of a buffer that holds one
LastDigitKey(buf) ==
    buf[CHOOSE i \in DOMAIN buf :
            IsDigitKey(buf[i]) /\ \A j \in DOMAIN buf : j > i => ~IsDigitKey(buf[j])]

(***************************************************************************)
(* C3, as claimed.  For every non-empty buffer whose last byte is not in   *)
(* '0'..'7', on_tcp_server_receive dispatches no digit and leaves the      *)
(* command LEDs unchanged, even when digits occur earlier in the buffer.   *)
(***************************************************************************)
C3_NoDispatchAfterTrailingNonDigit ==
    [][(Len(pusrdata') > 0 /\ ~IsDigitKey(LastByte(pusrdata')))
          => /\ dispatched' = <<>>
             /\ CommandLeds(gpio_out') = CommandLeds(gpio_out)]_vars

(***************************************************************************)
(* C3, amended.  A byte that is not in '0'..'7' does not end the scan: for *)
(* every non-empty buffer whose last byte is not in '0'..'7' the scan goes *)
(* on toward the start and dispatches the digit at the highest index, if   *)
(* the buffer holds one ("57x" dispatches '7'); no digit is dispatched and *)
(* the command LEDs are left unchanged only when the buffer holds no digit.*)
(***************************************************************************)
C3_ScanSkipsTrailingNonDigits ==
    [][(Len(pusrdata') > 0 /\ ~IsDigitKey(LastByte(pusrdata')))
          => IF HasDigitKey(pusrdata')
             THEN /\ dispatched' = <<LastDigitKey(pusrdata')>>
                  /\ CommandLeds(gpio_out') = LastDigitKey(pusrdata') - CHAR_DIGITS_START
             ELSE /\ dispatched' = <<>>
                  /\ CommandLeds(gpio_out') = CommandLeds(gpio_out)]_vars

\* "57x" was received and its '7' was dispatched
C3_Witness ==
    /\ pusrdata = Str57x
    /\ dispatched = <<55>>
    /\ CommandLeds(gpio_out) = 7

(***************************************************************************)
(* C4.  on_tcp_server_receive dispatches at most one digit per call; when  *)
(* the last byte of the buffer is in '0'..'7', exactly that byte is        *)
(* dispatched ("123" dispatches '3', "abc5" '5', "5x7" '7').               *)
(***************************************************************************)
C4_AtMostOneDigit ==
    /\ Len(dispatched) <= 1
    /\ (Len(pusrdata) > 0 /\ IsDigitKey(LastByte(pusrdata)))
          => dispatched = <<LastByte(pusrdata)>>

\* "123" was received and only its '3' was dispatched
C4_Witness ==
    /\ pusrdata = Str123
    /\ dispatched = <<51>>

(***************************************************************************)
(* C5.  After process_digit_key(c), for c in '0'..'7', the three command   *)
(* LED bits equal (c - '0') & 0b111 whatever they were before.             *)
(***************************************************************************)
C5_DigitOverwritesCommandLeds ==
    [][\A c \in CHAR_DIGITS_START..CHAR_DIGITS_END :
          dispatched' = <<c>> => CommandLeds(gpio_out') = (c - CHAR_DIGITS_START) % 8]_vars

\* '2' was dispatched and the command LEDs show 010
C5_Witness ==
    /\ dispatched = <<50>>
    /\ pusrdata = <<50>>
    /\ CommandLeds(gpio_out) = 2

(***************************************************************************)
(* C7.  Over the first 1000 calls of on_timer, starting from tick_index 0, *)
(* the state-update branch runs exactly 20 times and the status-LED branch *)
(* exactly 200 times.                                                      *)
(***************************************************************************)
C7_Cadence ==
    calls = 1000 => (state_updates = 20 /\ led_updates = 200)

\* the thousandth call has returned
C7_Witness ==
    /\ calls = 1000
    /\ tick_index = 1000
    /\ state_updates = 20
    /\ led_updates = 200

(***************************************************************************)
(* C8.  At the start of every on_timer call 0 <= tick_index <              *)
(* TIMER_PERIOD_RESET, and across the reset of tick_index the state-update *)
(* branch runs on exactly every 50th call and the status-LED branch on     *)
(* exactly every 5th call: after n calls from tick_index = WrapStart each  *)
(* branch has run once for every multiple of its period in                 *)
(* WrapStart .. WrapStart + n - 1, the indices counted without the reset.  *)
(***************************************************************************)
CeilDiv(a, b) == (a + b - 1) \div b

C8_WrapKeepsSchedule ==
    /\ tick_index >= 0
    /\ tick_index < TIMER_PERIOD_RESET
    /\ tick_index = (WrapStart + calls) % TIMER_PERIOD_RESET
    /\ state_updates = CeilDiv(WrapStart + calls, TIMER_PERIOD_STATE_UPDATE)
                          - CeilDiv(WrapStart, TIMER_PERIOD_STATE_UPDATE)
    /\ led_updates = CeilDiv(WrapStart + calls, TIMER_PERIOD_WIFI_STATUS_LED)
                          - CeilDiv(WrapStart, TIMER_PERIOD_WIFI_STATUS_LED)

\* tick_index was reset and both branches have run again since
C8_Witness ==
    /\ calls > WrapLead
    /\ tick_index = TIMER_PERIOD_STATE_UPDATE + 1
    /\ state_updates >= 2
    /\ led_updates >= 11

(***************************************************************************)
(* C9.  End to end, for one client: with one station associated and no     *)
(* connection open a state-update tick sets WifiConnected and every        *)
(* status-LED tick then inverts the status LED; an accept brings the       *)
(* counter to 1, the next state-update tick sets SocketConnected and the   *)
(* status LED is lit for as long as that state lasts; a receive of         *)
(* "hello7" sets the command LEDs to 111; the disconnect brings the        *)
(* counter back to 0 and the next state-update tick sets WifiConnected     *)
(* again.                                                                  *)
(***************************************************************************)
C9_EndToEnd ==
    [][/\ open_tcp_connections' = live_connections'
       /\ (StateUpdateTick /\ station_num = 1 /\ live_connections = 0)
             => client_connection_state' = STATE_CLIENT_WIFI_CONNECTED
       /\ (StatusLedTick /\ client_connection_state' = STATE_CLIENT_WIFI_CONNECTED)
             => (StatusLedOn(gpio_out') <=> ~StatusLedOn(gpio_out))
       /\ (StateUpdateTick /\ station_num = 1 /\ live_connections = 1)
             => client_connection_state' = STATE_CLIENT_SOCKET_CONNECTED
       /\ client_connection_state' = STATE_CLIENT_SOCKET_CONNECTED
             => StatusLedOn(gpio_out')
       /\ pusrdata' = Strhello7 => CommandLeds(gpio_out') = 7]_vars

\* the session is over: "hello7" was received, the connection is closed and a
\* state-update tick has taken the state from SocketConnected back to
\* WifiConnected
C9_Witness ==
    /\ station_num = 1
    /\ live_connections = 0
    /\ open_tcp_connections = 0
    /\ pusrdata = Strhello7
    /\ dispatched = <<55>>
    /\ CommandLeds(gpio_out) = 7
    /\ client_connection_state = STATE_CLIENT_WIFI_CONNECTED

(***************************************************************************)
(* C10, as claimed.  Any drop of the platform's session count to 0 forces  *)
(* the state to Disconnected and resets open_tcp_connections to 0: when   *)
(* the state was not Disconnected at the drop, the state-update tick that  *)
(* follows the drop, the first moment the state can change, leaves the     *)
(* state Disconnected and the counter 0.                                   *)
(***************************************************************************)
C10_AnyDropForcesDisconnected ==
    [][(StateUpdateTick /\ zero_drop = "pending"
            /\ client_connection_state # STATE_DISCONNECTED)
          => /\ client_connection_state' = STATE_DISCONNECTED
             /\ open_tcp_connections' = 0]_vars

(***************************************************************************)
(* C10, amended.  The session count is sampled by the state-update tick    *)
(* only: a drop to 0 that still holds when the next state-update tick      *)
(* reads the count forces the state to Disconnected and resets             *)
(* open_tcp_connections to 0, whatever the counter had drifted to; a drop  *)
(* that a new association undoes before that tick is not observed, and the *)
(* tick then sets the state from the counter as for any positive count.    *)
(***************************************************************************)
C10_SampledDropForcesDisconnected ==
    [][(StateUpdateTick /\ zero_drop = "pending")
          => IF station_num = 0
             THEN /\ client_connection_state' = STATE_DISCONNECTED
                  /\ open_tcp_connections' = 0
             ELSE /\ client_connection_state' # STATE_DISCONNECTED
                  /\ open_tcp_connections' = open_tcp_connections]_vars

\* a drop to 0 was read by a state-update tick while the counter stood at a
\* value other than 0, and the tick reset it
C10_Witness ==
    /\ zero_drop = "seen"
    /\ open_at_update # 0
    /\ open_tcp_connections = 0
    /\ client_connection_state = STATE_DISCONNECTED
    /\ station_num = 0

(***************************************************************************)
(* C11.  A receive buffer that holds no byte in '0'..'7' is ignored:       *)
(* on_tcp_server_receive passes nothing to process_digit_key and leaves    *)
(* the command LEDs, the status LED, client_connection_state,              *)
(* open_tcp_connections and tick_index as they were.                       *)
(***************************************************************************)
C11_NoDigitBufferIgnored ==
    [][(ReceiveCall /\ \A i \in DOMAIN pusrdata' :
                           pusrdata'[i] < CHAR_DIGITS_START \/ pusrdata'[i] > CHAR_DIGITS_END)
          => /\ dispatched' = <<>>
             /\ gpio_out' = gpio_out
             /\ client_connection_state' = client_connection_state
             /\ open_tcp_connections' = open_tcp_connections
             /\ tick_index' = tick_index]_vars

\* "x8" and a NUL arrived on an open connection after a digit had lit all
\* three command LEDs, and left them lit
C11_Witness ==
    /\ pusrdata = Strx8
    /\ dispatched = <<>>
    /\ CommandLeds(gpio_out) = 7
    /\ client_connection_state = STATE_CLIENT_SOCKET_CONNECTED
    /\ live_connections > 0

(***************************************************************************)
(* C12.  on_tcp_server_reconnect writes no state, whatever the error code: *)
(* client_connection_state, open_tcp_connections, tick_index,              *)
(* prev_wifi_sessions_num and every LED bit are the same before and after. *)
(***************************************************************************)
\* a connection ended and no disconnect callback ran for it
ReconnectCall ==
    /\ live_connections' = live_connections - 1
    /\ balance' = balance

C12_ReconnectWritesNothing ==
    [][ReconnectCall
          => /\ client_connection_state' = client_connection_state
             /\ open_tcp_connections' = open_tcp_connections
             /\ tick_index' = tick_index
             /\ prev_wifi_sessions_num' = prev_wifi_sessions_num
             /\ gpio_out' = gpio_out]_vars

\* the only accepted connection broke with an error: the counter still
\* stands at 1 and the state shows SocketConnected with the status LED lit
C12_Witness ==
    /\ live_connections = 0
    /\ open_tcp_connections = 1
    /\ station_num > 0
    /\ client_connection_state = STATE_CLIENT_SOCKET_CONNECTED
    /\ StatusLedOn(gpio_out)

(***************************************************************************)
(* C13.  client_connection_state is written by the state-update branch of  *)
(* on_timer only: on_tcp_server_accepted, on_tcp_server_disconnect,        *)
(* on_tcp_server_receive, on_tcp_server_reconnect and the on_timer calls   *)
(* with tick_index % 50 # 0 leave it unchanged.                            *)
(***************************************************************************)
C13_StateWrittenByStateUpdateOnly ==
    [][client_connection_state' # client_connection_state => StateUpdateTick]_vars

\* a connection was accepted and data received on it after a state-update
\* tick, and 49 on_timer calls later the state still shows WifiConnected
C13_Witness ==
    /\ client_connection_state = STATE_CLIENT_WIFI_CONNECTED
    /\ open_tcp_connections = 1
    /\ live_connections = 1
    /\ pusrdata = Strhello7
    /\ tick_index = TIMER_PERIOD_STATE_UPDATE - 1

(***************************************************************************)
(* C14.  Bounded response.  Once a session is associated and               *)
(* open_tcp_connections is > 0, as after an accept, and both stay so over  *)
(* 50 on_timer calls, the state is SocketConnected and the status LED is   *)
(* lit; once a session is associated and the counter is 0, as after the    *)
(* disconnect that brings it back to 0, and both stay so over 50 on_timer  *)
(* calls, the state is WifiConnected.                                      *)
(***************************************************************************)
C14_BoundedResponse ==
    steady_calls >= TIMER_PERIOD_STATE_UPDATE =>
        /\ (station_num > 0 /\ open_tcp_connections > 0)
              => /\ client_connection_state = STATE_CLIENT_SOCKET_CONNECTED
                 /\ StatusLedOn(gpio_out)
        /\ (station_num > 0 /\ open_tcp_connections = 0)
              => client_connection_state = STATE_CLIENT_WIFI_CONNECTED

\* a station associated and opened a connection after the first on_timer
\* call, which had read no session; the 50th call after that read the
\* session, set SocketConnected and lit the LED
C14_Witness ==
    /\ calls = TIMER_PERIOD_STATE_UPDATE + 1
    /\ steady_calls = TIMER_PERIOD_STATE_UPDATE
    /\ state_updates = 2
    /\ sessions_log = 1
    /\ live_connections = 1
    /\ open_tcp_connections = 1
    /\ client_connection_state = STATE_CLIENT_SOCKET_CONNECTED
    /\ StatusLedOn(gpio_out)

(***************************************************************************)
(* C15.  Every accept adds exactly 1 to open_tcp_connections and every     *)
(* disconnect subtracts exactly 1, at once and without clamping, so that   *)
(* under any interleaving of accept, disconnect and timer callbacks the    *)
(* counter equals the accepts minus the disconnects since the latest       *)
(* zero-session reset (or since start), below zero when the disconnects    *)
(* outnumber the accepts.                                                  *)
(***************************************************************************)
C15_CounterIsAcceptsMinusDisconnects ==
    open_tcp_connections = balance

(***************************************************************************)
(* C16.  The session-count log line is edge-triggered: an on_timer call    *)
(* writes it exactly when it is a state-update tick and the count it reads *)
(* differs from prev_wifi_sessions_num, the count recorded by the previous *)
(* state-update tick (0 at start), and the line carries the count read;    *)
(* after every state-update tick prev_wifi_sessions_num equals the count   *)
(* just read; other ticks write no such line and keep                      *)
(* prev_wifi_sessions_num.                                                 *)
(***************************************************************************)
C16_SessionsLogEdgeTriggered ==
    [][TimerCall =>
          /\ (sessions_log' # -1)
                <=> (tick_index % TIMER_PERIOD_STATE_UPDATE = 0
                        /\ station_num # prev_wifi_sessions_num)
          /\ sessions_log' # -1 => sessions_log' = station_num
          /\ prev_wifi_sessions_num' =
                IF tick_index % TIMER_PERIOD_STATE_UPDATE = 0
                THEN station_num ELSE prev_wifi_sessions_num]_vars

\* the second state-update tick found the session gone that the first one
\* had recorded, and logged the count 0
C16_Witness ==
    /\ state_updates = 2
    /\ sessions_log = 0
    /\ prev_wifi_sessions_num = 0
    /\ station_num = 0

(***************************************************************************)
(* C17.  No configuration failure stops startup: whether                   *)
(* wifi_softap_set_config fails (ap_config is then freed and set to NULL   *)
(* and the DHCP setup is skipped), wifi_softap_dhcps_start fails or        *)
(* espconn_accept fails, on_user_init_completed still arms the periodic    *)
(* timer.                                                                  *)
(***************************************************************************)
C17_StartupArmsTimer ==
    startup.phase = "running" =>
        /\ startup.timer_armed
        /\ ~startup.ap_set
              => (ap_config = "NULL" /\ startup.released /\ ~startup.dhcp_started)

\* the access point configuration and espconn_accept both failed, and
\* on_timer has been called since
C17_Witness ==
    /\ startup.phase = "running"
    /\ ~startup.ap_set
    /\ ~startup.listening
    /\ ap_config = "NULL"
    /\ calls >= TIMER_PERIOD_WIFI_STATUS_LED

(***************************************************************************)
(* C18.  For every non-empty buffer on_tcp_server_receive dispatches       *)
(* exactly the byte at the highest index that is in '0'..'7', skipping the *)
(* bytes after it that are not, zero bytes included, and dispatches        *)
(* nothing only when the buffer holds no such byte; the command LEDs then  *)
(* show that byte minus '0'.                                               *)
(***************************************************************************)
C18_DispatchesLastDigit ==
    Len(pusrdata) > 0 =>
        IF HasDigitKey(pusrdata)
        THEN /\ dispatched = <<LastDigitKey(pusrdata)>>
             /\ CommandLeds(gpio_out) = LastDigitKey(pusrdata) - CHAR_DIGITS_START
        ELSE dispatched = <<>>

\* '0' followed by a zero byte was received: the zero byte was skipped, '0'
\* dispatched and the command LEDs put out
C18_Witness ==
    /\ pusrdata = <<CHAR_DIGITS_START, 0>>
    /\ dispatched = <<CHAR_DIGITS_START>>
    /\ CommandLeds(gpio_out) = 0

(***************************************************************************)
(* C19.  Within one on_timer call the state-update branch runs before the  *)
(* status-LED branch, and every state-update tick is a status-LED tick as  *)
(* well: at the end of every state-update tick the status LED shows the    *)
(* state that tick has computed, lit for SocketConnected and out for       *)
(* Disconnected.                                                           *)
(***************************************************************************)
C19_LedShowsStateOfSameTick ==
    [][StateUpdateTick =>
          /\ StatusLedTick
          /\ led_updates' = led_updates + 1
          /\ client_connection_state' = STATE_CLIENT_SOCKET_CONNECTED
                => StatusLedOn(gpio_out')
          /\ client_connection_state' = STATE_DISCONNECTED
                => ~StatusLedOn(gpio_out')]_vars

\* the first on_timer call found a session and an open connection: it has
\* changed the state from Disconnected to SocketConnected and lit the LED
C19_Witness ==
    /\ calls = 1
    /\ state_updates = 1
    /\ led_updates = 1
    /\ client_connection_state = STATE_CLIENT_SOCKET_CONNECTED
    /\ StatusLedOn(gpio_out)

(***************************************************************************)
(* C20.  The two LED writers touch disjoint bits: on_timer never changes   *)
(* the command LED bits, and on_tcp_server_receive with process_digit_key  *)
(* never changes the status LED bit.  So under any interleaving of the     *)
(* callbacks the command LEDs change only when a receive dispatches a      *)
(* digit, to that digit's pattern, and the status LED changes only in a    *)
(* status-LED tick.                                                        *)
(***************************************************************************)
C20_LedWritersDisjoint ==
    [][/\ TimerCall => CommandLeds(gpio_out') = CommandLeds(gpio_out)
       /\ ReceiveCall => (StatusLedOn(gpio_out') <=> StatusLedOn(gpio_out))
       /\ CommandLeds(gpio_out') # CommandLeds(gpio_out)
             => /\ ReceiveCall
                /\ Len(dispatched') = 1
                /\ CommandLeds(gpio_out') = dispatched'[1] - CHAR_DIGITS_START
       /\ (StatusLedOn(gpio_out') <=> ~StatusLedOn(gpio_out)) => StatusLedTick]_vars

\* "57x" lit the three command LEDs while the status LED was lit for the open
\* connection; since then the connection and the session have gone, a
\* state-update tick has put the status LED out, and the command LEDs still
\* show 7
C20_Witness ==
    /\ pusrdata = Str57x
    /\ dispatched = <<55>>
    /\ CommandLeds(gpio_out) = 7
    /\ state_updates = 2
    /\ client_connection_state = STATE_DISCONNECTED
    /\ ~StatusLedOn(gpio_out)

====
